---- MODULE Spec2Model ----
(***************************************************************************)
(* ASCII-Vision 95: the conversion engine (image-processor.js,             *)
(* ascii-converter.js) and the application coordinator (main.js) as a      *)
(* state machine.  JavaScript numbers are IEEE-754 binary64 values; the    *)
(* arithmetic the code performs on them is modelled bit-exactly (round to  *)
(* nearest, ties to even) on arbitrary-precision naturals, because the     *)
(* engine's results hinge on Math.floor / Math.round of those values.      *)
(***************************************************************************)
EXTENDS Integers, Sequences, FiniteSets, TLC

(***************************************************************************)
(* Arbitrary-precision naturals: little-endian sequences of limbs in       *)
(* 0..Base-1 without high zero limbs; <<>> is zero.  Carries and borrows   *)
(* are written in closed form (a carry enters limb i when a lower limb     *)
(* generates one and every limb between propagates it).                    *)
(***************************************************************************)
MinInt(a, b) == IF a < b THEN a ELSE b
MaxInt(a, b) == IF a > b THEN a ELSE b
SetMax(S) == CHOOSE i \in S : \A j \in S : j <= i

\* the number of bits of n, 0 <= n < 2^30
BitLenInt(n) == IF n = 0 THEN 0 ELSE CHOOSE k \in 1..30 : 2^(k - 1) <= n /\ n < 2^k

Base == 2^15
LimbBits == BitLenInt(Base) - 1

Limb(a, i) == IF i >= 1 /\ i <= Len(a) THEN a[i] ELSE 0

BNorm(a) ==
  IF a = <<>> \/ a[Len(a)] # 0 THEN a
  ELSE LET nz == {i \in 1..Len(a) : a[i] # 0}
       IN  IF nz = {} THEN <<>> ELSE SubSeq(a, 1, SetMax(nz))

\* 0 <= n < 2^31
BFromInt(n) == BNorm(<<n % Base, (n \div Base) % Base, n \div (Base * Base)>>)

\* a < 2^31
BToInt(a) == Limb(a, 1) + Base * Limb(a, 2) + Base * Base * Limb(a, 3)

BCmp(a, b) ==
  IF a = b THEN 0
  ELSE IF Len(a) # Len(b) THEN (IF Len(a) < Len(b) THEN -1 ELSE 1)
  ELSE LET t == SetMax({i \in 1..Len(a) : a[i] # b[i]})
       IN  IF a[t] < b[t] THEN -1 ELSE 1

BAdd(a, b) ==
  IF a = <<>> THEN BNorm(b)
  ELSE IF b = <<>> THEN BNorm(a)
  ELSE LET S(i) == Limb(a, i) + Limb(b, i)
           Carry(i) == IF \E j \in 1..(i - 1) :
                            S(j) >= Base /\ \A k \in (j + 1)..(i - 1) : S(k) = Base - 1
                       THEN 1 ELSE 0
       IN  BNorm([i \in 1..(MaxInt(Len(a), Len(b)) + 1) |->
                    (S(i) + Carry(i)) % Base] \o <<>>)

\* a - b for a >= b
BSub(a, b) ==
  IF b = <<>> THEN a ELSE
  LET Borrow(i) == IF \E j \in 1..(i - 1) :
                        Limb(a, j) < Limb(b, j)
                        /\ \A k \in (j + 1)..(i - 1) : Limb(a, k) = Limb(b, k)
                   THEN 1 ELSE 0
  IN  BNorm([i \in 1..Len(a) |->
               (Limb(a, i) - Limb(b, i) - Borrow(i) + Base) % Base] \o <<>>)

\* the number with digit d[i] < Base * Base at limb i
BFromDigits(d) ==
  IF d = <<>> THEN <<>> ELSE
  BAdd([i \in 1..Len(d) |-> d[i] % Base] \o <<>>,
       <<0>> \o [i \in 1..Len(d) |-> d[i] \div Base])

\* a * k for 0 <= k < Base
BMulSmall(a, k) ==
  IF a = <<>> \/ k = 0 THEN <<>> ELSE IF k = 1 THEN a ELSE
  BFromDigits([i \in 1..Len(a) |-> a[i] * k] \o <<>>)

Zeros(n) == [i \in 1..n |-> 0] \o <<>>

\* a times the limbs lo..hi of b, each at its place
RECURSIVE BMulRange(_, _, _, _)
BMulRange(a, b, lo, hi) ==
  IF lo = hi THEN BNorm(Zeros(lo - 1) \o BMulSmall(a, b[lo]))
  ELSE BAdd(BMulRange(a, b, lo, (lo + hi) \div 2),
            BMulRange(a, b, ((lo + hi) \div 2) + 1, hi))

BMul(a, b) == IF a = <<>> \/ b = <<>> THEN <<>> ELSE BMulRange(a, b, 1, Len(b))

\* a * 2^n
BShl(a, n) ==
  IF a = <<>> THEN <<>>
  ELSE Zeros(n \div LimbBits) \o BMulSmall(a, 2^(n % LimbBits))

\* floor(a / 2^n)
BShr(a, n) ==
  LET w == n \div LimbBits
      r == n % LimbBits
      d == 2^r
      u == 2^(LimbBits - r)
  IN  IF w >= Len(a) THEN <<>>
      ELSE BNorm([i \in 1..(Len(a) - w) |->
                    (a[i + w] \div d) + (Limb(a, i + w + 1) % d) * u] \o <<>>)

\* a mod 2^n
BLow(a, n) ==
  LET w == n \div LimbBits
      r == n % LimbBits
  IN  BNorm([i \in 1..MinInt(Len(a), w + 1) |->
               IF i <= w THEN a[i] ELSE a[i] % 2^r] \o <<>>)

BBitLen(a) ==
  IF a = <<>> THEN 0 ELSE (Len(a) - 1) * LimbBits + BitLenInt(a[Len(a)])

BOdd(a) == a # <<>> /\ a[1] % 2 = 1

\* the limb d with b * d <= r < b * (d + 1), for r < b * Base and a divisor b
\* whose top limb is Base / 2 or more: the quotient of the two top limbs of r
\* by the top limb of b is d, d + 1 or d + 2
QDigit(r, b) ==
  LET n    == Len(b)
      qhat == MinInt((Limb(r, n + 1) * Base + Limb(r, n)) \div b[n], Base - 1)
  IN  CHOOSE d \in MaxInt(qhat - 2, 0)..qhat :
        /\ BCmp(BMulSmall(b, d), r) <= 0
        /\ BCmp(BMulSmall(b, d + 1), r) > 0

\* <<quotient, remainder>> of the limbs i..Len(a) of a by b, by long division,
\* one limb a step
RECURSIVE BDivModFrom(_, _, _)
BDivModFrom(a, b, i) ==
  IF i > Len(a) - Len(b) + 1 THEN <<<<>>, BNorm(SubSeq(a, MaxInt(i, 1), Len(a)))>>
  ELSE LET hi == BDivModFrom(a, b, i + 1)
           r2 == BNorm(<<a[i]>> \o hi[2])
           d  == QDigit(r2, b)
       IN  IF hi[2] = <<>> /\ a[i] = 0 THEN <<BNorm(<<0>> \o hi[1]), <<>>>>
           ELSE <<BNorm(<<d>> \o hi[1]), BSub(r2, BMulSmall(b, d))>>

\* <<quotient, remainder>> of a / b, b # 0: both are first scaled by the power
\* of two that brings the top limb of b to Base / 2 or more
BDivMod(a, b) ==
  LET s  == LimbBits - BitLenInt(b[Len(b)])
      qr == BDivModFrom(BShl(a, s), BShl(b, s), 1)
  IN  <<qr[1], BShr(qr[2], s)>>

(***************************************************************************)
(* JavaScript Number: a finite IEEE-754 binary64 value is                  *)
(* [k |-> "fin", s, m, e], meaning (-1)^s * m * 2^e with m = 0 (e = 0) or  *)
(* 2^52 <= m < 2^53; a division by zero gives k = "inf" or k = "nan".      *)
(* The exponent range of binary64 is never approached by the values the    *)
(* program computes (magnitudes between 2^-70 and 2^40), so exponents are  *)
(* plain integers.                                                         *)
(***************************************************************************)
RECURSIVE Engine(_, _)
MantBits == 53

DZero == [k |-> "fin", s |-> 0, m |-> <<>>, e |-> 0]
DNaN  == [k |-> "nan", s |-> 0, m |-> <<>>, e |-> 0]
DInf(sg) == [k |-> "inf", s |-> sg, m |-> <<>>, e |-> 0]

\* the binary64 value nearest to (-1)^sg * M * 2^E, ties to even
DRound(sg, M, E) == Engine("DRound", <<sg, M, E>>)
DRoundImpl(sg, M, E) ==
  LET L == BBitLen(M) IN
  IF M = <<>> THEN [DZero EXCEPT !.s = sg]
  ELSE IF L <= MantBits
  THEN [k |-> "fin", s |-> sg, m |-> BShl(M, MantBits - L), e |-> E - (MantBits - L)]
  ELSE LET n    == L - MantBits
           q    == BShr(M, n)
           rem  == BLow(M, n)
           half == BShl(<<1>>, n - 1)
           c    == BCmp(rem, half)
           up   == c > 0 \/ (c = 0 /\ BOdd(q))
           q1   == IF up THEN BAdd(q, <<1>>) ELSE q
       IN  IF BBitLen(q1) > MantBits
           THEN [k |-> "fin", s |-> sg, m |-> BShr(q1, 1), e |-> E + n + 1]
           ELSE [k |-> "fin", s |-> sg, m |-> q1, e |-> E + n]

DFromInt(n) == Engine("DFromInt", <<n>>)
DFromIntImpl(n) == IF n < 0 THEN DRound(1, BFromInt(-n), 0) ELSE DRound(0, BFromInt(n), 0)

DIsZero(x) == x.k = "fin" /\ x.m = <<>>

DNeg(x) == IF x.k = "nan" THEN x ELSE [x EXCEPT !.s = 1 - x.s]

\* -1, 0, 1 as |x| <, =, > |y| for finite x, y
DCmpAbs(x, y) ==
  IF DIsZero(x) THEN (IF DIsZero(y) THEN 0 ELSE -1)
  ELSE IF DIsZero(y) THEN 1
  ELSE IF x.e < y.e THEN -1
  ELSE IF x.e > y.e THEN 1
  ELSE BCmp(x.m, y.m)

\* -1, 0, 1 as x <, =, > y for finite x, y (-0 = +0)
DCmp(x, y) == Engine("DCmp", <<x, y>>)
DCmpImpl(x, y) ==
  IF DIsZero(x) /\ DIsZero(y) THEN 0
  ELSE IF x.s # y.s
  THEN (IF DIsZero(x) THEN (IF y.s = 1 THEN 1 ELSE -1) ELSE IF x.s = 1 THEN -1 ELSE 1)
  ELSE IF x.s = 0 THEN DCmpAbs(x, y) ELSE DCmpAbs(y, x)

DLt(x, y) == x.k = "fin" /\ y.k = "fin" /\ DCmp(x, y) < 0
DGt(x, y) == x.k = "fin" /\ y.k = "fin" /\ DCmp(x, y) > 0
DLe(x, y) == x.k = "fin" /\ y.k = "fin" /\ DCmp(x, y) <= 0
DEq(x, y) == x.k = "fin" /\ y.k = "fin" /\ DCmp(x, y) = 0

\* x + y
DAdd(x, y) == Engine("DAdd", <<x, y>>)
DAddImpl(x, y) ==
  IF x.k # "fin" \/ y.k # "fin"
  THEN (IF x.k = "nan" \/ y.k = "nan" THEN DNaN
        ELSE IF x.k = "inf" /\ y.k = "inf" THEN (IF x.s = y.s THEN x ELSE DNaN)
        ELSE IF x.k = "inf" THEN x ELSE y)
  ELSE IF DIsZero(x) THEN (IF DIsZero(y) /\ x.s # y.s THEN DZero ELSE y)
  ELSE IF DIsZero(y) THEN x
  ELSE LET emin == IF x.e < y.e THEN x.e ELSE y.e
           X == BShl(x.m, x.e - emin)
           Y == BShl(y.m, y.e - emin)
           c == BCmp(X, Y)
       IN  IF x.s = y.s THEN DRound(x.s, BAdd(X, Y), emin)
           ELSE IF c = 0 THEN DZero
           ELSE IF c > 0 THEN DRound(x.s, BSub(X, Y), emin)
           ELSE DRound(y.s, BSub(Y, X), emin)

DSub(x, y) == Engine("DSub", <<x, y>>)
DSubImpl(x, y) == DAdd(x, DNeg(y))

\* x * y
DMul(x, y) == Engine("DMul", <<x, y>>)
DMulImpl(x, y) ==
  LET sg == (x.s + y.s) % 2 IN
  IF x.k = "nan" \/ y.k = "nan" THEN DNaN
  ELSE IF x.k = "inf" \/ y.k = "inf"
  THEN (IF DIsZero(x) \/ DIsZero(y) THEN DNaN ELSE DInf(sg))
  ELSE DRound(sg, BMul(x.m, y.m), x.e + y.e)

\* x / y; the quotient is taken to MantBits + 3 bits or more and a sticky bit
DivExtra == MantBits + 3
DDiv(x, y) == Engine("DDiv", <<x, y>>)
DDivImpl(x, y) ==
  LET sg == (x.s + y.s) % 2 IN
  IF x.k = "nan" \/ y.k = "nan" THEN DNaN
  ELSE IF x.k = "inf" THEN (IF y.k = "inf" THEN DNaN ELSE DInf(sg))
  ELSE IF y.k = "inf" THEN [DZero EXCEPT !.s = sg]
  ELSE IF DIsZero(y) THEN (IF DIsZero(x) THEN DNaN ELSE DInf(sg))
  ELSE IF DIsZero(x) THEN [DZero EXCEPT !.s = sg]
  ELSE LET qr == BDivMod(BShl(x.m, DivExtra), y.m)
       IN  IF qr[2] = <<>> THEN DRound(sg, qr[1], x.e - y.e - DivExtra)
           ELSE DRound(sg, BAdd(BMulSmall(qr[1], 2), <<1>>), x.e - y.e - DivExtra - 1)

\* Math.floor(x) as an integer, for finite x of magnitude below 2^31
DFloor(x) == Engine("DFloor", <<x>>)
DFloorImpl(x) ==
  IF DIsZero(x) THEN 0
  ELSE IF x.e >= 0 THEN (IF x.s = 1 THEN -BToInt(BShl(x.m, x.e)) ELSE BToInt(BShl(x.m, x.e)))
  ELSE LET q == BToInt(BShr(x.m, -x.e))
           exact == BLow(x.m, -x.e) = <<>>
       IN  IF x.s = 0 THEN q ELSE IF exact THEN -q ELSE -(q + 1)

\* Math.round(x) as an integer: nearest, a tie towards +Infinity
DRoundHalfUp(x) == Engine("DRoundHalfUp", <<x>>)
DRoundHalfUpImpl(x) ==
  IF DIsZero(x) THEN 0
  ELSE IF x.e >= 0 THEN DFloor(x)
  ELSE LET q    == BToInt(BShr(x.m, -x.e))
           c    == BCmp(BLow(x.m, -x.e), BShl(<<1>>, -x.e - 1))
       IN  IF x.s = 0 THEN (IF c >= 0 THEN q + 1 ELSE q)
           ELSE (IF c > 0 THEN -(q + 1) ELSE -q)

\* nearest integer, a tie to the even one (the store into a Uint8ClampedArray)
DRoundHalfEven(x) == Engine("DRoundHalfEven", <<x>>)
DRoundHalfEvenImpl(x) ==
  IF DIsZero(x) THEN 0
  ELSE IF x.e >= 0 THEN DFloor(x)
  ELSE LET q    == BToInt(BShr(x.m, -x.e))
           c    == BCmp(BLow(x.m, -x.e), BShl(<<1>>, -x.e - 1))
           n    == IF c > 0 \/ (c = 0 /\ q % 2 = 1) THEN q + 1 ELSE q
       IN  IF x.s = 0 THEN n ELSE -n

\* x below y in the order of Math.min and Math.max, neither being NaN:
\* -Infinity first, +Infinity last, -0 below +0
DBelow(x, y) ==
  IF x.k = "inf" THEN x.s = 1 /\ ~(y.k = "inf" /\ y.s = 1)
  ELSE IF y.k = "inf" THEN y.s = 0
  ELSE LET c == DCmp(x, y) IN c < 0 \/ (c = 0 /\ x.s = 1 /\ y.s = 0)

\* Math.min / Math.max of two values: NaN if either is NaN
DMin(x, y) ==
  IF x.k = "nan" \/ y.k = "nan" THEN DNaN ELSE IF DBelow(y, x) THEN y ELSE x
DMax(x, y) ==
  IF x.k = "nan" \/ y.k = "nan" THEN DNaN ELSE IF DBelow(x, y) THEN y ELSE x

\* a decimal literal num/den of the source text, as the nearest binary64 value
DLit(num, den) == Engine("DLit", <<num, den>>)
DLitImpl(num, den) == DDiv(DFromInt(num), DFromInt(den))

(***************************************************************************)
(* image-processor.js                                                      *)
(***************************************************************************)
\* clamp(value) = Math.max(0, Math.min(255, value))
Clamp(x) == Engine("Clamp", <<x>>)
ClampImpl(x) == DMax(DFromInt(0), DMin(DFromInt(255), x))

\* the store of a Number into a Uint8ClampedArray element (ImageData.data):
\* clamped to [0,255] and rounded to the nearest integer, a tie to even
Uint8ClampStore(x) ==
  IF x.k = "nan" THEN 0
  ELSE IF x.k = "inf" THEN (IF x.s = 1 THEN 0 ELSE 255)
  ELSE LET n == DRoundHalfEven(Clamp(x)) IN n

\* the reciprocal of the factor
ContrastFactorReciprocal(contrast) ==
  DDiv(DFromInt(255 * (259 - contrast)), DFromInt(259 * (contrast + 255)))

\* contrastFactor = (259 * (contrast + 255)) / (255 * (259 - contrast))
ContrastFactor(contrast) ==
  DDiv(DFromInt(259 * (contrast + 255)), DFromInt(255 * (259 - contrast)))

\* data[i] = clamp(data[i] + brightness)
BrightnessStep(v, brightness) == Uint8ClampStore(Clamp(DFromInt(v + brightness)))

\* adds 127 back instead of 128
ContrastStepPivot127(v, contrast) ==
  Uint8ClampStore(Clamp(DAdd(DMul(ContrastFactor(contrast), DFromInt(v - 128)),
                             DFromInt(127))))

\* data[i] = clamp(contrastFactor * (data[i] - 128) + 128)
ContrastStep(v, contrast) ==
  Uint8ClampStore(Clamp(DAdd(DMul(ContrastFactor(contrast), DFromInt(v - 128)),
                             DFromInt(128))))

\* contrast first, brightness second
AdjustSampleContrastFirst(v, brightness, contrast) ==
  BrightnessStep(ContrastStep(v, contrast), brightness)

\* one R, G or B sample through the loop body: brightness, then contrast
AdjustSampleCalc(v, brightness, contrast) ==
  ContrastStep(BrightnessStep(v, brightness), contrast)

(***************************************************************************)
(* ascii-converter.js                                                      *)
(***************************************************************************)
NL == "\n"

\* glyphs outside ASCII are named by their code point; each is one UTF-16 unit
charSets ==
  [dense  |-> <<"@", "#", "$", "%", "&", "*", "+", "-", ":", ".", " ">>,
   medium |-> <<"#", "$", "%", "*", "+", "-", ":", ".", " ">>,
   light  |-> <<"u2593", "u2592", "u2591", ":", ".", " ">>,
   blocks |-> <<"u2588", "u2584", "u258C", "u2590", "u00B7", " ">>,
   simple |-> <<"@", "*", ".", " ">>,
   retro  |-> <<"u2551", "u2550", "u2554", "u2557", "u255A", "u255D", " ", " ">>]

CharSetKeys == DOMAIN charSets

PaletteKeys ==
  {"original", "matrix", "amber", "cyan", "fire", "ice", "purple", "grayscale"}

W299 == DLit(299, 1000)
W587 == DLit(587, 1000)
W114 == DLit(114, 1000)

\* leaves the blue term out of the weighted sum
LuminosityNoBlue(r, g, b) ==
  DAdd(DMul(DFromInt(r), W299), DMul(DFromInt(g), W587))

\* weighs red with the weight of green
LuminosityRedAsGreen(r, g, b) ==
  DAdd(DAdd(DMul(DFromInt(r), W587), DMul(DFromInt(g), W587)),
       DMul(DFromInt(b), W114))

\* r * 0.299 + g * 0.587 + b * 0.114, evaluated left to right
Luminosity(r, g, b) ==
  DAdd(DAdd(DMul(DFromInt(r), W299), DMul(DFromInt(g), W587)),
       DMul(DFromInt(b), W114))

\* colorPalettes[key](r, g, b)
PaletteColor(key, r, g, b) ==
  LET br   == Luminosity(r, g, b)
      F(x) == DFloor(x)
      T(num) == DMul(br, DLit(num, 10))
  IN  CASE key = "original"  -> [r |-> r, g |-> g, b |-> b]
        [] key = "matrix"    -> [r |-> 0, g |-> F(br), b |-> 0]
        [] key = "amber"     -> [r |-> F(br), g |-> F(T(7)), b |-> 0]
        [] key = "cyan"      -> [r |-> 0, g |-> F(T(8)), b |-> F(br)]
        [] key = "fire"      ->
             [r |-> F(br),
              g |-> F(DMul(DMul(br, DDiv(br, DFromInt(255))), DLit(5, 10))),
              b |-> 0]
        [] key = "ice"       -> [r |-> F(T(6)), g |-> F(T(8)), b |-> F(br)]
        [] key = "purple"    -> [r |-> F(T(8)), g |-> F(T(3)), b |-> F(br)]
        [] key = "grayscale" -> [r |-> F(br), g |-> F(br), b |-> F(br)]

\* an unknown key falls back to the grayscale palette instead of original
PaletteFuncGrayFallback(key, r, g, b) ==
  IF key \in PaletteKeys THEN PaletteColor(key, r, g, b)
  ELSE PaletteColor("grayscale", r, g, b)

\* colorPalettes[colorPalette] || colorPalettes.original
PaletteFuncCalc(key, r, g, b) ==
  IF key \in PaletteKeys THEN PaletteColor(key, r, g, b)
  ELSE PaletteColor("original", r, g, b)

\* multiplies by the length of the set instead of the length minus one
CharIndexFullLength(r, g, b, inverted, setLength) ==
  LET n0 == DDiv(Luminosity(r, g, b), DFromInt(255))
      n1 == IF inverted THEN DSub(DFromInt(1), n0) ELSE n0
  IN  DFloor(DMul(n1, DFromInt(setLength)))

\* subtracts one from the normalised brightness instead of subtracting it from one
CharIndexNegated(r, g, b, inverted, setLength) ==
  LET n0 == DDiv(Luminosity(r, g, b), DFromInt(255))
      n1 == IF inverted THEN DSub(n0, DFromInt(1)) ELSE n0
  IN  DFloor(DMul(n1, DFromInt(setLength - 1)))

\* charIndex = Math.floor(normalisedBrightness * (selectedCharSet.length - 1))
CharIndexCalc(r, g, b, inverted, setLength) ==
  LET n0 == DDiv(Luminosity(r, g, b), DFromInt(255))
      n1 == IF inverted THEN DSub(DFromInt(1), n0) ELSE n0
  IN  DFloor(DMul(n1, DFromInt(setLength - 1)))

\* an index outside the array reads undefined, which ascii += char appends as
\* the nine letters "undefined"
Undefined == <<"u", "n", "d", "e", "f", "i", "n", "e", "d">>
\* a function tabulated once (one evaluation of the body per element of its domain)
Tabulate(f) == f @@ <<>>

(***************************************************************************)
(* The colours the modelled images are made of, and the tone settings the  *)
(* specifications use.  The three per-sample computations are pure, so     *)
(* their values on these colours are tabulated once and looked up; any     *)
(* other argument is computed directly.                                    *)
(***************************************************************************)
White  == <<255, 255, 255, 255>>
Black  == <<0, 0, 0, 255>>
Edge   == <<0, 51, 17, 255>>
Tint   == <<200, 30, 30, 128>>
Colours == {White, Black, Edge, Tint}
Tones   == {0, 20} \X {0, 25}

AdjustMemo ==
  Tabulate([k \in {c[i] : c \in Colours, i \in 1..3} \X Tones |->
              AdjustSampleCalc(k[1], k[2][1], k[2][2])])

AdjustSample(v, brightness, contrast) == Engine("AdjustSample", <<v, brightness, contrast>>)
AdjustSampleImpl(v, brightness, contrast) ==
  IF <<v, <<brightness, contrast>>>> \in DOMAIN AdjustMemo
  THEN AdjustMemo[<<v, <<brightness, contrast>>>>]
  ELSE AdjustSampleCalc(v, brightness, contrast)

MemoPixels ==
  {<<c[1], c[2], c[3]>> : c \in Colours} \cup
  {<<AdjustSample(c[1], t[1], t[2]), AdjustSample(c[2], t[1], t[2]),
     AdjustSample(c[3], t[1], t[2])>> : c \in Colours, t \in Tones}

CharIndexMemo ==
  Tabulate([k \in MemoPixels \X BOOLEAN \X {Len(charSets[key]) : key \in CharSetKeys} |->
              CharIndexCalc(k[1][1], k[1][2], k[1][3], k[2], k[3])])

CharIndex(r, g, b, inverted, setLength) == Engine("CharIndex", <<r, g, b, inverted, setLength>>)
CharIndexImpl(r, g, b, inverted, setLength) ==
  IF <<<<r, g, b>>, inverted, setLength>> \in DOMAIN CharIndexMemo
  THEN CharIndexMemo[<<<<r, g, b>>, inverted, setLength>>]
  ELSE CharIndexCalc(r, g, b, inverted, setLength)

PaletteMemo ==
  Tabulate([k \in PaletteKeys \X MemoPixels |->
              PaletteFuncCalc(k[1], k[2][1], k[2][2], k[2][3])])

PaletteFunc(key, r, g, b) == Engine("PaletteFunc", <<key, r, g, b>>)
PaletteFuncImpl(key, r, g, b) ==
  IF <<key, <<r, g, b>>>> \in DOMAIN PaletteMemo
  THEN PaletteMemo[<<key, <<r, g, b>>>>]
  ELSE PaletteFuncCalc(key, r, g, b)

RECURSIVE Flatten(_, _, _)
Flatten(parts, lo, hi) ==
  IF lo > hi THEN <<>>
  ELSE IF lo = hi THEN parts[lo]
  ELSE LET mid == (lo + hi) \div 2
       IN  Flatten(parts, lo, mid) \o Flatten(parts, mid + 1, hi)

(***************************************************************************)
(* A source image (HTMLImageElement): its natural size and its pixels.     *)
(* The pixel at (sx, sy) is colours[((sx + sy * width) mod Len(colours))]. *)
(***************************************************************************)
ImagePixel(image, sx, sy) ==
  image.colours[((sx + sy * image.width) % Len(image.colours)) + 1]

\* canvas.height = Math.floor(image.height * scale), scale = outputWidth / image.width.
\* For an image without columns the scale is Infinity or NaN and so is the
\* product; the canvas attribute (an unsigned long) takes a value that is not
\* finite as 0.
CanvasHeight(image, outputWidth) ==
  LET h == DMul(DFromInt(image.height),
                DDiv(DFromInt(outputWidth), DFromInt(image.width)))
  IN  IF h.k = "fin" THEN DFloor(h) ELSE 0

\* ctx.drawImage(image, 0, 0, canvas.width, canvas.height) followed by
\* getImageData: the flat RGBA buffer of the scaled image.  The browser's
\* scaler is outside the repository; it is taken to sample the source pixel
\* under each canvas pixel.
DrawImage(image, cw, ch) ==
  [i \in 1..(4 * cw * ch) |->
     LET p == (i - 1) \div 4
         x == p % cw
         y == p \div cw
     IN  ImagePixel(image, (x * image.width) \div cw,
                    (y * image.height) \div ch)[((i - 1) % 4) + 1]] \o <<>>

\* rewrites all four samples of every pixel, alpha included
ApplyBrightnessContrastEverySample(data, brightness, contrast) ==
  [i \in 1..Len(data) |-> AdjustSample(data[i], brightness, contrast)] \o <<>>

\* applyBrightnessContrast on the flat RGBA buffer of a canvas (1-based here):
\* offsets 0, 1, 2 of every pixel are rewritten, offset 3 (alpha) is not
ApplyBrightnessContrast(data, brightness, contrast) == Engine("ApplyBrightnessContrast", <<data, brightness, contrast>>)
ApplyBrightnessContrastImpl(data, brightness, contrast) ==
  [i \in 1..Len(data) |->
     IF (i - 1) % 4 = 3 THEN data[i]
     ELSE AdjustSample(data[i], brightness, contrast)] \o <<>>

\* selectedCharSet[charIndex]
CharAt(set, charIndex) ==
  IF charIndex \in 0..(Len(set) - 1) THEN set[charIndex + 1] ELSE "undefined"

Thrown(name) == [ok |-> FALSE, error |-> name]

\* the cell left out of the row: the glyph is not stored
ColorCellNoChar(char, c) == [char |-> " ", r |-> c.r, g |-> c.g, b |-> c.b]

\* row.push({ char, r: transformedColor.r, g: transformedColor.g, b: transformedColor.b })
ColorCell(char, c) == [char |-> char, r |-> c.r, g |-> c.g, b |-> c.b]

\* convertImageToASCII(image, options): the returned object (hasColor tells a
\* colorData array from null), or the exception raised: by getImageData on a
\* canvas without rows or columns, or by selectedCharSet.length at the first
\* pixel when charSets has no such key (selectedCharSet is undefined)
ConvertImageToASCII(image, options) == Engine("ConvertImageToASCII", <<image, options>>)
ConvertImageToASCIIImpl(image, options) ==
  LET selectedCharSet == charSets[options.charSetKey]
      cw   == options.outputWidth
      ch   == CanvasHeight(image, options.outputWidth)
      raw  == DrawImage(image, cw, ch)
      data == IF options.brightness # 0 \/ options.contrast # 0
              THEN ApplyBrightnessContrast(raw, options.brightness, options.contrast)
              ELSE raw
      Px(x, y) == LET i == (y * cw + x) * 4
                  IN  <<data[i + 1], data[i + 2], data[i + 3]>>
      Char(x, y) ==
        LET p == Px(x, y)
        IN  CharAt(selectedCharSet,
                   CharIndex(p[1], p[2], p[3], options.isInverted,
                             Len(selectedCharSet)))
      Units(char) == IF char = "undefined" THEN Undefined ELSE <<char>>
      Row(y) == Flatten([x \in 1..cw |-> Units(Char(x - 1, y))], 1, cw) \o <<NL>>
      Cell(x, y) ==
        LET p == Px(x, y)
        IN  ColorCell(Char(x, y),
                      PaletteFunc(options.colorPalette, p[1], p[2], p[3]))
  IN  IF cw < 1 \/ ch < 1 \/ Len(data) = 0 THEN Thrown("IndexSizeError")
      ELSE IF options.charSetKey \notin CharSetKeys THEN Thrown("TypeError")
      ELSE [ok        |-> TRUE,
            ascii     |-> Flatten([y \in 1..ch |-> Row(y - 1)], 1, ch),
            colorData |-> IF options.isColorMode
                          THEN [y \in 1..ch |->
                                  [x \in 1..cw |-> Cell(x - 1, y - 1)] \o <<>>] \o <<>>
                          ELSE <<>>,
            hasColor  |-> options.isColorMode,
            width     |-> cw,
            height    |-> ch]

(***************************************************************************)
(* main.js: the exporter's layout arithmetic (handleSavePng).              *)
(***************************************************************************)
\* AppState.currentAscii.split("\n"): the text between consecutive terminators,
\* an empty last line after a trailing terminator included
Split(text) ==
  LET nl     == {i \in 1..Len(text) : text[i] = NL}
      n      == Cardinality(nl)
      Pos(k) == IF k = 0 THEN 0
                ELSE IF k = n + 1 THEN Len(text) + 1
                ELSE CHOOSE p \in nl : Cardinality({q \in nl : q <= p}) = k
  IN  [k \in 1..(n + 1) |-> SubSeq(text, Pos(k - 1) + 1, Pos(k) - 1)] \o <<>>

\* Math.max(...lines.map((line) => line.length))
MaxLineLength(lines) ==
  CHOOSE m \in {Len(lines[k]) : k \in 1..Len(lines)} :
    \A k \in 1..Len(lines) : Len(lines[k]) <= m

baseFontSize == 10
padding      == 100
minDimension == 600
maxDimension == 1200
minFontSize  == 6
maxFontSize  == 12
charWidthRatio == DLit(6, 10)

\* the natural dimensions, rounded, whatever their size
FinalSizeNatural(naturalWidth, naturalHeight) ==
  <<DFromInt(DRoundHalfUp(naturalWidth)), DFromInt(DRoundHalfUp(naturalHeight))>>

\* lines 271-307 of handleSavePng: finalWidth and finalHeight from the natural
\* content dimensions
FinalSize(naturalWidth, naturalHeight) ==
  LET aspectRatio == DDiv(naturalWidth, naturalHeight)
      lo          == DFromInt(minDimension)
      hi          == DFromInt(maxDimension)
      wide        == DGt(naturalWidth, naturalHeight)
      D(n)        == DFromInt(n)
  IN  IF DGt(naturalWidth, hi) \/ DGt(naturalHeight, hi)
      THEN IF wide
           THEN LET fw == DMin(naturalWidth, hi)
                IN  <<fw, D(DRoundHalfUp(DDiv(fw, aspectRatio)))>>
           ELSE LET fh == DMin(naturalHeight, hi)
                IN  <<D(DRoundHalfUp(DMul(fh, aspectRatio))), fh>>
      ELSE IF DLt(naturalWidth, lo) /\ DLt(naturalHeight, lo)
      THEN IF wide
           THEN <<lo, D(DRoundHalfUp(DDiv(lo, aspectRatio)))>>
           ELSE <<D(DRoundHalfUp(DMul(lo, aspectRatio))), lo>>
      ELSE <<D(DRoundHalfUp(naturalWidth)), D(DRoundHalfUp(naturalHeight))>>

\* lines 260-339 of handleSavePng: the bitmap size, the font size and the
\* origin of the text block, from maxLineLength and lines.length
Layout(maxLineLength, lineCount) == Engine("Layout", <<maxLineLength, lineCount>>)
LayoutImpl(maxLineLength, lineCount) ==
  LET baseCharWidth  == DMul(DFromInt(baseFontSize), DLit(6, 10))
      baseLineHeight == DFromInt(baseFontSize)
      naturalWidth   == DAdd(DMul(DFromInt(maxLineLength), baseCharWidth),
                             DFromInt(padding))
      naturalHeight  == DAdd(DMul(DFromInt(lineCount), baseLineHeight),
                             DFromInt(padding))
      D(n)           == DFromInt(n)
      final          == FinalSize(naturalWidth, naturalHeight)
      finalWidth      == final[1]
      finalHeight     == final[2]
      availableWidth  == DSub(finalWidth, DFromInt(padding))
      availableHeight == DSub(finalHeight, DFromInt(padding))
      maxFontSizeByWidth ==
        DFloor(DDiv(DDiv(availableWidth, DFromInt(maxLineLength)), charWidthRatio))
      maxFontSizeByHeight == DFloor(DDiv(availableHeight, DFromInt(lineCount)))
      fontSize == MaxInt(minFontSize,
                         MinInt(MinInt(maxFontSizeByWidth, maxFontSizeByHeight),
                                maxFontSize))
      adjustedCharWidth == DMul(DFromInt(fontSize), charWidthRatio)
      totalTextWidth    == DMul(DFromInt(maxLineLength), adjustedCharWidth)
      totalTextHeight   == DMul(DFromInt(lineCount), DFromInt(fontSize))
  IN  [maxLineLength   |-> maxLineLength,
       lineCount       |-> lineCount,
       naturalWidth    |-> DFloor(naturalWidth),
       naturalHeight   |-> DFloor(naturalHeight),
       naturalExact    |-> DEq(naturalWidth, D(DFloor(naturalWidth))),
       width           |-> DFloor(finalWidth),
       height          |-> DFloor(finalHeight),
       availableWidth  |-> availableWidth,
       availableHeight |-> availableHeight,
       fontSize        |-> fontSize,
       totalTextWidth  |-> totalTextWidth,
       totalTextHeight |-> totalTextHeight,
       startX          |-> DDiv(DSub(finalWidth, totalTextWidth), DFromInt(2)),
       startY          |-> DDiv(DSub(finalHeight, totalTextHeight), DFromInt(2))]

(***************************************************************************)
(* The call graph.  Every function above that is entered through Engine is *)
(* one arm: its name and its arguments select the body that runs.          *)
(***************************************************************************)
Engine(op, args) ==
  CASE op = "DRound" /\ Len(args) = 3 ->
         DRoundImpl(args[1], args[2], args[3])
    [] op = "DFromInt" /\ Len(args) = 1 ->
         DFromIntImpl(args[1])
    [] op = "DCmp" /\ Len(args) = 2 ->
         DCmpImpl(args[1], args[2])
    [] op = "DAdd" /\ Len(args) = 2 ->
         DAddImpl(args[1], args[2])
    [] op = "DSub" /\ Len(args) = 2 ->
         DSubImpl(args[1], args[2])
    [] op = "DMul" /\ Len(args) = 2 ->
         DMulImpl(args[1], args[2])
    [] op = "DDiv" /\ Len(args) = 2 ->
         DDivImpl(args[1], args[2])
    [] op = "DFloor" /\ Len(args) = 1 ->
         DFloorImpl(args[1])
    [] op = "DRoundHalfUp" /\ Len(args) = 1 ->
         DRoundHalfUpImpl(args[1])
    [] op = "DRoundHalfEven" /\ Len(args) = 1 ->
         DRoundHalfEvenImpl(args[1])
    [] op = "DLit" /\ Len(args) = 2 ->
         DLitImpl(args[1], args[2])
    [] op = "Clamp" /\ Len(args) = 1 ->
         ClampImpl(args[1])
    [] op = "AdjustSample" /\ Len(args) = 3 ->
         AdjustSampleImpl(args[1], args[2], args[3])
    [] op = "CharIndex" /\ Len(args) = 5 ->
         CharIndexImpl(args[1], args[2], args[3], args[4], args[5])
    [] op = "PaletteFunc" /\ Len(args) = 4 ->
         PaletteFuncImpl(args[1], args[2], args[3], args[4])
    [] op = "ApplyBrightnessContrast" /\ Len(args) = 3 ->
         ApplyBrightnessContrastImpl(args[1], args[2], args[3])
    [] op = "ConvertImageToASCII" /\ Len(args) = 2 ->
         ConvertImageToASCIIImpl(args[1], args[2])
    [] op = "Layout" /\ Len(args) = 2 ->
         LayoutImpl(args[1], args[2])

(***************************************************************************)
(* State.  AppState of main.js, the #ascii output element the handlers     *)
(* write and handleSavePng reads back, and what one step hands out.        *)
(***************************************************************************)
VARIABLES
  currentImage,   \* AppState.currentImage: "null" or the name of a loaded image
  currentAscii,   \* AppState.currentAscii: the text, a sequence of UTF-16 units
  isInverted,     \* AppState.isInverted
  settings,       \* AppState.settings
  asciiDom,       \* the content of the #ascii element
  result,         \* the object convertImageToASCII returned for currentAscii
  exported,       \* the bitmap the step just taken drew (handleSavePng), if any
  edits,          \* how many setting changes the user has made
  invertRun,      \* how many Invert clicks the latest steps were (0, 1, 2 or more)
  invertBase,     \* isInverted before that run of Invert clicks
  loads,          \* the file input's value, the image loads started so far in
                  \* order, those still in flight and those handed to onImageLoad
  call            \* a direct call of one of the engine's functions and its return

appVars == <<currentImage, currentAscii, isInverted, settings, asciiDom, result,
             exported, edits, invertRun, invertBase, loads>>
vars == <<currentImage, currentAscii, isInverted, settings, asciiDom, result,
          exported, edits, invertRun, invertBase, loads, call>>

\* the images a user loads: name |-> natural size and pixels
Images ==
  [wide  |-> [width |-> 80, height |-> 2, colours |-> <<White, Black, Edge, Tint>>],
   strip |-> [width |-> 80, height |-> 1, colours |-> <<Black, White, Tint>>]]
ImageNames == DOMAIN Images

\* the values the controls are moved between
WidthValues      == {40, 80}
BrightnessValues == {0, 20}
ContrastValues   == {0, 25}
CharSetValues    == {"medium", "simple"}
ColorModeValues  == {"monochrome", "color"}
PaletteValues    == {"original", "fire"}
MaxEdits == 1

DefaultSettings ==
  [outputWidth  |-> 80,
   brightness   |-> 0,
   contrast     |-> 0,
   charSetKey   |-> "medium",
   colorMode    |-> "monochrome",
   colorPalette |-> "original"]

NoResult == [ok |-> FALSE, error |-> "none"]
NoExport == [done |-> FALSE]
NoCall   == [fn |-> "none", done |-> FALSE]
NoLoads  == [input |-> "", started |-> <<>>, pending |-> {}, delivered |-> {}]

AppInit ==
  /\ currentImage = "null"
  /\ currentAscii = <<>>
  /\ isInverted = FALSE
  /\ settings = DefaultSettings
  /\ asciiDom = [kind |-> "placeholder"]
  /\ result = NoResult
  /\ exported = NoExport
  /\ edits = 0
  /\ invertRun = 0
  /\ invertBase = FALSE
  /\ loads = NoLoads

Init == AppInit /\ call = NoCall

\* the options object handleRender passes to convertImageToASCII
RenderOptions(s, inverted) ==
  [outputWidth  |-> s.outputWidth,
   brightness   |-> s.brightness,
   contrast     |-> s.contrast,
   charSetKey   |-> s.charSetKey,
   isColorMode  |-> s.colorMode = "color",
   isInverted   |-> inverted,
   colorPalette |-> s.colorPalette]

\* renderColoredASCII: one div per row, one span per cell with the cell's
\* character as text and rgb(r, g, b) as colour
RenderColoredASCII(colorData) ==
  [kind |-> "rows",
   rows |-> [y \in 1..Len(colorData) |->
               [x \in 1..Len(colorData[y]) |->
                  [text  |-> colorData[y][x].char,
                   color |-> <<colorData[y][x].r, colorData[y][x].g,
                               colorData[y][x].b>>]] \o <<>>] \o <<>>]

\* the body of handleRender: nothing happens without an image; an exception of
\* the conversion leaves the handler before any assignment
RenderEffect(inverted) ==
  IF currentImage = "null"
  THEN UNCHANGED <<currentAscii, asciiDom, result>>
  ELSE LET r == ConvertImageToASCII(Images[currentImage],
                                    RenderOptions(settings, inverted))
       IN  IF ~r.ok THEN UNCHANGED <<currentAscii, asciiDom, result>>
           ELSE /\ currentAscii' = r.ascii
                /\ result' = r
                /\ asciiDom' = IF settings.colorMode = "color" /\ r.hasColor
                               THEN RenderColoredASCII(r.colorData)
                               ELSE [kind |-> "text", text |-> r.ascii]

\* every handler but handleSavePng draws no bitmap, every one but handleInvert
\* ends a run of Invert clicks
Quiet == exported' = NoExport
NoInvert == invertRun' = 0 /\ invertBase' = FALSE

\* the body of handleImageLoad
ImageLoadEffect(name) ==
  /\ currentImage' = name
  /\ Quiet /\ NoInvert
  /\ UNCHANGED <<currentAscii, isInverted, settings, asciiDom, result, edits, call>>

\* a file chosen and loaded in one step
handleImageLoad(name) == ImageLoadEffect(name) /\ UNCHANGED loads

\* the slider and select listeners of initializeApp: one field of settings changes
ChangeSetting(field, value) ==
  /\ edits < MaxEdits
  /\ settings[field] # value
  /\ settings' = [settings EXCEPT ![field] = value]
  /\ edits' = edits + 1
  /\ Quiet /\ NoInvert
  /\ UNCHANGED <<currentImage, currentAscii, isInverted, asciiDom, result, loads,
                 call>>

onWidthChange        == \E v \in WidthValues : ChangeSetting("outputWidth", v)
onBrightnessChange   == \E v \in BrightnessValues : ChangeSetting("brightness", v)
onContrastChange     == \E v \in ContrastValues : ChangeSetting("contrast", v)
onCharSetChange      == \E v \in CharSetValues : ChangeSetting("charSetKey", v)
onColorModeChange    == \E v \in ColorModeValues : ChangeSetting("colorMode", v)
onColorPaletteChange == \E v \in PaletteValues : ChangeSetting("colorPalette", v)

handleRender ==
  /\ RenderEffect(isInverted)
  /\ Quiet /\ NoInvert
  /\ UNCHANGED <<currentImage, isInverted, settings, edits, loads, call>>

handleInvert ==
  /\ isInverted' = ~isInverted
  /\ RenderEffect(~isInverted)
  /\ invertRun' = IF invertRun < 2 THEN invertRun + 1 ELSE 2
  /\ invertBase' = IF invertRun = 0 THEN isInverted
                   ELSE IF invertRun = 1 THEN invertBase
                   ELSE ~invertBase
  /\ Quiet
  /\ UNCHANGED <<currentImage, settings, edits, loads, call>>

\* forgets the image and keeps the text
handleClearImageOnly ==
  /\ currentImage' = "null"
  /\ loads' = [loads EXCEPT !.input = ""]
  /\ Quiet /\ NoInvert
  /\ UNCHANGED <<currentAscii, asciiDom, result, isInverted, settings, edits, call>>

handleClear ==
  /\ currentImage' = "null"
  /\ currentAscii' = <<>>
  /\ asciiDom' = [kind |-> "placeholder"]
  /\ result' = NoResult
  /\ loads' = [loads EXCEPT !.input = ""]
  /\ Quiet /\ NoInvert
  /\ UNCHANGED <<isInverted, settings, edits, call>>

\* leaves the colour mode on
ResetValuesColor ==
  [outputWidth  |-> 80,
   brightness   |-> 0,
   contrast     |-> 0,
   charSetKey   |-> "medium",
   colorMode    |-> "color",
   colorPalette |-> "original"]

\* the object resetSettings assigns to AppState.settings
ResetValues ==
  [outputWidth  |-> 80,
   brightness   |-> 0,
   contrast     |-> 0,
   charSetKey   |-> "medium",
   colorMode    |-> "monochrome",
   colorPalette |-> "original"]

resetSettings ==
  /\ settings' = ResetValues
  /\ isInverted' = FALSE
  /\ Quiet /\ NoInvert
  /\ UNCHANGED <<currentImage, currentAscii, asciiDom, result, edits, loads, call>>

Green == <<0, 255, 0>>

\* the fillText calls of handleSavePng, row by row: in colour mode one glyph per
\* span of each child of #ascii, otherwise each line of the text in green
Draws(colorMode, dom, lines) ==
  IF colorMode = "color"
  THEN IF dom.kind = "rows"
       THEN [y \in 1..Len(dom.rows) |->
               [x \in 1..Len(dom.rows[y]) |->
                  [char  |-> dom.rows[y][x].text,
                   color |-> dom.rows[y][x].color]] \o <<>>] \o <<>>
       ELSE <<>>
  ELSE [y \in 1..Len(lines) |->
          [x \in 1..Len(lines[y]) |->
             [char |-> lines[y][x], color |-> Green]] \o <<>>] \o <<>>

\* the bitmap handleSavePng draws for a text, a colour mode and the #ascii content
SavePng(text, colorMode, dom) ==
  LET lines == Split(text)
  IN  [done      |-> TRUE,
       colorMode |-> colorMode,
       layout    |-> Layout(MaxLineLength(lines), Len(lines)),
       draws     |-> Draws(colorMode, dom, lines)]

handleSavePng ==
  /\ exported' = IF currentAscii = <<>> THEN NoExport
                 ELSE SavePng(currentAscii, settings.colorMode, asciiDom)
  /\ NoInvert
  /\ UNCHANGED <<currentImage, currentAscii, isInverted, settings, asciiDom,
                 result, edits, loads, call>>

Next ==
  \/ \E name \in ImageNames : handleImageLoad(name)
  \/ onWidthChange
  \/ onBrightnessChange
  \/ onContrastChange
  \/ onCharSetChange
  \/ onColorModeChange
  \/ onColorPaletteChange
  \/ handleRender
  \/ handleInvert
  \/ handleSavePng
  \/ handleClear
  \/ resetSettings

Spec == Init /\ [][Next]_vars

(***************************************************************************)
(* convertImageToASCII called directly on small images.                    *)
(***************************************************************************)
MaxImageWidth  == 4
MaxImageHeight == 3
MaxOutputWidth == 4
ConvCharSets == {"simple", "light"}
ConvTones    == {<<0, 0>>, <<20, 25>>}

TestImage(w, h) ==
  [width |-> w, height |-> h, colours |-> <<White, Black, Edge, Tint>>]

ConvInputs ==
  {[fn      |-> "convertImageToASCII",
    done    |-> FALSE,
    image   |-> TestImage(w, h),
    options |-> [outputWidth  |-> ow,
                 brightness   |-> t[1],
                 contrast     |-> t[2],
                 charSetKey   |-> key,
                 isColorMode  |-> cm,
                 isInverted   |-> inv,
                 colorPalette |-> "fire"]] :
     w \in 1..MaxImageWidth, h \in 1..MaxImageHeight, ow \in 1..MaxOutputWidth,
     t \in ConvTones, key \in ConvCharSets, cm \in BOOLEAN, inv \in BOOLEAN}

InitConv == AppInit /\ call \in ConvInputs

convertImageToASCII ==
  /\ call.fn = "convertImageToASCII"
  /\ ~call.done
  /\ call' = [fn      |-> call.fn,
              done    |-> TRUE,
              image   |-> call.image,
              options |-> call.options,
              out     |-> ConvertImageToASCII(call.image, call.options)]
  /\ UNCHANGED appVars

NextConv == convertImageToASCII

SpecConv == InitConv /\ [][NextConv]_vars

ConvDone == call.fn = "convertImageToASCII" /\ call.done

\* C1: the grid of a W x H image converted at outputWidth OW has
\* floor(H * OW / W) rows, and one row when that quotient is below 1.
C1_RowCountMinOne ==
  ConvDone =>
    /\ call.out.ok
    /\ call.out.height =
         MaxInt(1, (call.image.height * call.options.outputWidth)
                     \div call.image.width)

\* C2: in every conversion that returns, every row of the text is exactly
\* outputWidth glyphs of the selected set followed by exactly one terminator,
\* and in colour mode every row of colorData has exactly outputWidth cells.
C2_RowShape ==
  ConvDone /\ call.out.ok =>
    LET w    == call.options.outputWidth
        h    == call.out.height
        text == call.out.ascii
        set  == charSets[call.options.charSetKey]
    IN  /\ Len(text) = h * (w + 1)
        /\ \A i \in 1..Len(text) :
             IF i % (w + 1) = 0 THEN text[i] = NL
             ELSE text[i] # NL /\ \E j \in 1..Len(set) : text[i] = set[j]
        /\ call.options.isColorMode =>
             /\ call.out.hasColor
             /\ Len(call.out.colorData) = h
             /\ \A y \in 1..h : Len(call.out.colorData[y]) = w

C2_Witness ==
  /\ ConvDone
  /\ call.out.ok
  /\ call.options.isColorMode
  /\ call.options.outputWidth = 3
  /\ call.out.height = 2
  /\ Len(call.out.ascii) = 8
  /\ Len(call.out.colorData[2]) = 3

\* C16: a conversion that returns carries colour data exactly when colour
\* mode is on (null otherwise), and in colour mode the cell in column x of
\* row y holds the character at position x of row y of the text.
C16_ColorDataMatchesText ==
  ConvDone /\ call.out.ok =>
    LET w == call.options.outputWidth
    IN  /\ call.out.hasColor <=> call.options.isColorMode
        /\ ~call.options.isColorMode => call.out.colorData = <<>>
        /\ call.options.isColorMode =>
             /\ Len(call.out.colorData) = call.out.height
             /\ \A y \in 1..call.out.height :
                  /\ Len(call.out.colorData[y]) = w
                  /\ \A x \in 1..w :
                       call.out.colorData[y][x].char =
                         call.out.ascii[(y - 1) * (w + 1) + x]

C16_Witness ==
  /\ ConvDone
  /\ call.out.ok
  /\ call.options.isColorMode
  /\ call.out.hasColor
  /\ call.out.height = 3
  /\ call.options.outputWidth = 4
  /\ call.out.colorData[3][4].char = call.out.ascii[14]
  /\ call.out.colorData[3][4].char # call.out.colorData[3][3].char

(***************************************************************************)
(* convertImageToASCII called with options and images a caller can pass    *)
(* but the application's controls never produce: no output column, an      *)
(* image without columns or rows, keys that charSets or colorPalettes do   *)
(* not have.                                                               *)
(***************************************************************************)
MaxOddSize == 2
OddCharSets == {"simple", "braille"}
OddPalettes == {"original", "fire", "sepia"}

OddInputs ==
  {[fn      |-> "convertOdd",
    done    |-> FALSE,
    image   |-> TestImage(w, h),
    options |-> [outputWidth  |-> ow,
                 brightness   |-> t[1],
                 contrast     |-> t[2],
                 charSetKey   |-> key,
                 isColorMode  |-> cm,
                 isInverted   |-> FALSE,
                 colorPalette |-> pal]] :
     w \in 0..MaxOddSize, h \in 0..MaxOddSize, ow \in 0..MaxOddSize,
     t \in ConvTones, key \in OddCharSets, cm \in BOOLEAN, pal \in OddPalettes}

InitOdd == AppInit /\ call \in OddInputs

convertOdd ==
  /\ call.fn = "convertOdd"
  /\ ~call.done
  /\ call' = [fn      |-> call.fn,
              done    |-> TRUE,
              image   |-> call.image,
              options |-> call.options,
              out     |-> ConvertImageToASCII(call.image, call.options)]
  /\ UNCHANGED appVars

NextOdd == convertOdd

SpecOdd == InitOdd /\ [][NextOdd]_vars

OddDone == call.fn = "convertOdd" /\ call.done

\* C13: a conversion whose outputWidth is below 1, whose image has no column
\* or no row, whose character-set key is unknown or whose palette key is
\* unknown raises an error and returns no grid.
C13_RejectsInvalid ==
  OddDone /\ (\/ call.options.outputWidth < 1
              \/ call.image.width = 0
              \/ call.image.height = 0
              \/ call.options.charSetKey \notin CharSetKeys
              \/ call.options.colorPalette \notin PaletteKeys)
    => ~call.out.ok

\* the R, G, B samples the loop reads for the cell in column x of row y
\* (both from 1): the canvas after drawImage and, when brightness or contrast
\* is not 0, after applyBrightnessContrast
SampledPixel(image, options, x, y) ==
  LET cw   == options.outputWidth
      raw  == DrawImage(image, cw, CanvasHeight(image, cw))
      data == IF options.brightness # 0 \/ options.contrast # 0
              THEN ApplyBrightnessContrast(raw, options.brightness, options.contrast)
              ELSE raw
      i    == ((y - 1) * cw + (x - 1)) * 4
  IN  <<data[i + 1], data[i + 2], data[i + 3]>>

SampleBytes == {0, 17, 51, 128, 255}
MaxCustomLength == 3

BuiltInSets == {charSets[key] : key \in CharSetKeys}
CustomSets  == {SubSeq(charSets.dense, 1, n) : n \in 1..MaxCustomLength}

PixelInputs ==
  {[fn |-> "charIndex", done |-> FALSE, r |-> r, g |-> g, b |-> b,
    inverted |-> inv, set |-> set] :
     r \in SampleBytes, g \in SampleBytes, b \in SampleBytes,
     inv \in BOOLEAN, set \in BuiltInSets \cup CustomSets}

InitPixel == AppInit /\ call \in PixelInputs

mapPixel ==
  /\ call.fn = "charIndex"
  /\ ~call.done
  /\ LET charIndex == CharIndex(call.r, call.g, call.b, call.inverted, Len(call.set))
     IN  call' = [fn |-> call.fn, done |-> TRUE, r |-> call.r, g |-> call.g,
                  b |-> call.b, inverted |-> call.inverted, set |-> call.set,
                  out |-> [charIndex |-> charIndex,
                           char      |-> CharAt(call.set, charIndex)]]
  /\ UNCHANGED appVars

NextPixel == mapPixel

SpecPixel == InitPixel /\ [][NextPixel]_vars

PixelDone == call.fn = "charIndex" /\ call.done

\* C3: for every set of length N >= 1, every R, G, B in [0,255] and both
\* invert values the character index is in [0, N-1] (0 when N = 1) and the
\* glyph read at it is an element of the set, never undefined.
C3_IndexInRange ==
  PixelDone =>
    /\ call.out.charIndex \in 0..(Len(call.set) - 1)
    /\ Len(call.set) = 1 => call.out.charIndex = 0
    /\ call.out.char # "undefined"
    /\ call.out.char = call.set[call.out.charIndex + 1]

C3_Witness ==
  /\ PixelDone
  /\ call.inverted
  /\ <<call.r, call.g, call.b>> = <<0, 0, 0>>
  /\ call.set = charSets.dense
  /\ call.out.charIndex = Len(charSets.dense) - 1

\* C4: for every built-in set, with invert off a black pixel maps to the first
\* glyph and a white pixel to the last; with invert on a white pixel maps to
\* index 0, the first glyph.
C4_Extremes ==
  PixelDone /\ call.set \in BuiltInSets =>
    LET rgb == <<call.r, call.g, call.b>>
    IN  /\ ~call.inverted /\ rgb = <<0, 0, 0>> =>
             call.out.charIndex = 0 /\ call.out.char = call.set[1]
        /\ ~call.inverted /\ rgb = <<255, 255, 255>> =>
             /\ call.out.charIndex = Len(call.set) - 1
             /\ call.out.char = call.set[Len(call.set)]
        /\ call.inverted /\ rgb = <<255, 255, 255>> =>
             call.out.charIndex = 0 /\ call.out.char = call.set[1]

C4_Witness ==
  /\ PixelDone
  /\ ~call.inverted
  /\ <<call.r, call.g, call.b>> = <<255, 255, 255>>
  /\ call.set = charSets.simple
  /\ call.out.charIndex = 3
  /\ call.out.char = " "

\* the pixels every pixel is compared with (green at one sample byte, red and
\* blue at another: 25 luminances from 0 to 255), each with its luminance and
\* its character index for both invert values and every length of a built-in set
MonoPixels == {<<v, w, v>> : v \in SampleBytes, w \in SampleBytes}
MonoLuminance == Tabulate([q \in MonoPixels |-> Luminosity(q[1], q[2], q[3])])
MonoIndex ==
  Tabulate([k \in MonoPixels \X BOOLEAN \X {Len(set) : set \in BuiltInSets} |->
              CharIndex(k[1][1], k[1][2], k[1][3], k[2], k[3])])

\* C30: for every built-in set and any two pixels, the character index of
\* the one of lower or equal luminance is at most that of the other with
\* invert off, and at least that of the other with invert on.
C30_IndexMonotone ==
  PixelDone /\ call.set \in BuiltInSets =>
    LET lum == Luminosity(call.r, call.g, call.b)
        Ordered(lo, hi) == IF call.inverted THEN hi <= lo ELSE lo <= hi
    IN  \A q \in MonoPixels :
          LET other == MonoIndex[<<q, call.inverted, Len(call.set)>>]
          IN  /\ DLe(lum, MonoLuminance[q]) => Ordered(call.out.charIndex, other)
              /\ DLe(MonoLuminance[q], lum) => Ordered(other, call.out.charIndex)

\* mid grey in the medium set sits at index 4 with invert off, below white at
\* index 8 and above black at index 0
C30_Witness ==
  /\ PixelDone
  /\ ~call.inverted
  /\ call.set = charSets.medium
  /\ <<call.r, call.g, call.b>> = <<128, 128, 128>>
  /\ call.out.charIndex = 4
  /\ MonoIndex[<<<<255, 255, 255>>, FALSE, 9>>] = 8
  /\ MonoIndex[<<<<0, 0, 0>>, FALSE, 9>>] = 0

(***************************************************************************)
(* The palette functions of colorPalettes on their own: a key and the      *)
(* r, g, b of one pixel in, the transformed colour out.                    *)
(***************************************************************************)
PaletteInputs ==
  {[fn |-> "palette", done |-> FALSE, key |-> key, r |-> r, g |-> g, b |-> b] :
     key \in PaletteKeys, r \in SampleBytes, g \in SampleBytes, b \in SampleBytes}

InitPalette == AppInit /\ call \in PaletteInputs

applyPalette ==
  /\ call.fn = "palette"
  /\ ~call.done
  /\ call' = [fn |-> call.fn, done |-> TRUE, key |-> call.key,
              r |-> call.r, g |-> call.g, b |-> call.b,
              out |-> PaletteFunc(call.key, call.r, call.g, call.b)]
  /\ UNCHANGED appVars

NextPalette == applyPalette

SpecPalette == InitPalette /\ [][NextPalette]_vars

PaletteDone == call.fn = "palette" /\ call.done

\* C17: for each of the eight built-in palettes and r, g, b in [0,255] the
\* returned r, g and b are integers in [0,255].
C17_PaletteInByteRange ==
  PaletteDone =>
    /\ call.out.r \in 0..255
    /\ call.out.g \in 0..255
    /\ call.out.b \in 0..255

C17_Witness ==
  /\ PaletteDone
  /\ call.key = "fire"
  /\ call.r = 255 /\ call.g = 255 /\ call.b = 255
  /\ call.out = [r |-> 255, g |-> 127, b |-> 0]

(***************************************************************************)
(* convertImageToASCII called twice with the same arguments, the           *)
(* application running in between.  The caller keeps its options object    *)
(* and the two exported tables in view across the calls.                   *)
(***************************************************************************)
PureOptions ==
  {[outputWidth |-> 40, brightness |-> bv, contrast |-> 0,
    charSetKey |-> "simple", isColorMode |-> TRUE, isInverted |-> inv,
    colorPalette |-> "fire"] : bv \in BrightnessValues, inv \in BOOLEAN}

PureInputs ==
  {[fn |-> "convertTwice", image |-> "wide", options |-> o, given |-> o,
    charSets |-> charSets, colorPalettes |-> PaletteKeys, outs |-> <<>>] :
     o \in PureOptions}

InitPure == AppInit /\ call \in PureInputs

\* reads AppState.isInverted where the converter reads options.isInverted
CallConverterSharedInvert(image, options) ==
  ConvertImageToASCII(image, [options EXCEPT !.isInverted = isInverted])

\* window.ASCIIConverter.convertImageToASCII(image, options) as a caller
\* reaches it
CallConverter(image, options) == ConvertImageToASCII(image, options)

\* one of the two calls: the function reads options, charSets and
\* colorPalettes and assigns to none of them
convertAgain ==
  /\ call.fn = "convertTwice"
  /\ Len(call.outs) < 2
  /\ call' = [call EXCEPT
                !.outs = Append(@, CallConverter(Images[call.image], call.options))]
  /\ UNCHANGED appVars

NextPure ==
  \/ convertAgain
  \/ \E name \in ImageNames : handleImageLoad(name)
  \/ onBrightnessChange
  \/ onColorModeChange
  \/ handleRender
  \/ handleInvert

SpecPure == InitPure /\ [][NextPure]_vars

ClampSpan == 90

ClampNumbers ==
  {DLit(n, 2) : n \in (0 - ClampSpan)..(510 + ClampSpan)}
    \cup {DFromInt(300), DFromInt(-10), DFromInt(100000), DLit(1, 1000),
          DNeg(DZero), DInf(0), DInf(1), DNaN}

ClampInputs == {[fn |-> "clamp", done |-> FALSE, x |-> v] : v \in ClampNumbers}

InitClamp == AppInit /\ call \in ClampInputs

clamp ==
  /\ call.fn = "clamp"
  /\ ~call.done
  /\ LET c == Clamp(call.x)
     IN  call' = [fn |-> call.fn, done |-> TRUE, x |-> call.x,
                  out |-> c, again |-> Clamp(c)]
  /\ UNCHANGED appVars

SpecClamp == InitClamp /\ [][clamp]_vars

ClampDone == call.fn = "clamp" /\ call.done

ContrastSpan == 300

FactorInputs ==
  {[fn |-> "contrastFactor", done |-> FALSE, contrast |-> cv] :
     cv \in (0 - ContrastSpan)..ContrastSpan}

InitFactor == AppInit /\ call \in FactorInputs

\* const contrastFactor = (259 * (contrast + 255)) / (255 * (259 - contrast))
contrastFactor ==
  /\ call.fn = "contrastFactor"
  /\ ~call.done
  /\ call' = [fn |-> call.fn, done |-> TRUE, contrast |-> call.contrast,
              divisor |-> 255 * (259 - call.contrast),
              out |-> ContrastFactor(call.contrast)]
  /\ UNCHANGED appVars

SpecFactor == InitFactor /\ [][contrastFactor]_vars

FactorDone == call.fn = "contrastFactor" /\ call.done

\* C24 as stated: the factor formula divides by zero at contrast = -255 and
\* at no other contrast, and at none in [-50,50].
C24_ZeroDivisorAtMinus255 ==
  FactorDone =>
    /\ call.divisor = 0 <=> call.contrast = -255
    /\ call.contrast \in -50..50 => call.divisor # 0

\* C24, amended: the divisor 255 * (259 - contrast) is zero at contrast = 259
\* and at no other contrast, and there the factor is +Infinity; at
\* contrast = -255 the dividend is zero and the factor is 0; for every
\* contrast in [-50,50] the divisor is positive and the factor is finite and
\* positive.
C24_ZeroDivisorAt259 ==
  FactorDone =>
    /\ call.divisor = 0 <=> call.contrast = 259
    /\ call.out.k # "fin" <=> call.contrast = 259
    /\ call.contrast = 259 => call.out = DInf(0)
    /\ call.contrast = -255 => DIsZero(call.out)
    /\ call.contrast \in -50..50 =>
         /\ call.divisor > 0
         /\ DGt(call.out, DFromInt(0))

C24_Witness ==
  /\ FactorDone
  /\ call.contrast = 259
  /\ call.divisor = 0
  /\ call.out = DInf(0)

(***************************************************************************)
(* applyBrightnessContrast called directly on one-pixel buffers.           *)
(***************************************************************************)
ToneLevels == {-50, -25, 0, 25, 50}
TonePixels ==
  {<<0, 50, 128, 255>>, <<255, 100, 200, 7>>, <<30, 127, 129, 0>>,
   <<64, 180, 230, 255>>}

ToneInputs ==
  {[fn |-> "applyBrightnessContrast", done |-> FALSE, data |-> px,
    brightness |-> bv, contrast |-> cv] :
     px \in TonePixels, bv \in ToneLevels, cv \in ToneLevels}

InitTone == AppInit /\ call \in ToneInputs

applyBrightnessContrast ==
  /\ call.fn = "applyBrightnessContrast"
  /\ ~call.done
  /\ call' = [fn |-> call.fn, done |-> TRUE, data |-> call.data,
              brightness |-> call.brightness, contrast |-> call.contrast,
              out |-> ApplyBrightnessContrast(call.data, call.brightness,
                                              call.contrast)]
  /\ UNCHANGED appVars

NextTone == applyBrightnessContrast

SpecTone == InitTone /\ [][NextTone]_vars

ToneDone == call.fn = "applyBrightnessContrast" /\ call.done

\* clamp(factor * (clamp(v + brightness) - 128) + 128) as the exact fraction
\* num / den, factor = (259 * (contrast + 255)) / (255 * (259 - contrast))
ToneDen(cv) == 255 * (259 - cv)
ToneNum(v, bv, cv) ==
  LET v1  == MaxInt(0, MinInt(255, v + bv))
      raw == 259 * (cv + 255) * (v1 - 128) + 128 * ToneDen(cv)
  IN  MaxInt(0, MinInt(255 * ToneDen(cv), raw))

\* C5 as stated: every R, G, B sample is replaced by exactly
\* clamp(factor * (clamp(original + brightness) - 128) + 128).
C5_ExactFormula ==
  ToneDone =>
    \A i \in 1..3 :
      call.out[i] * ToneDen(call.contrast) =
        ToneNum(call.data[i], call.brightness, call.contrast)

\* C5, amended: every R, G, B sample is replaced by the integer nearest to
\* clamp(factor * (clamp(original + brightness) - 128) + 128), brightness
\* applied first and contrast second, and the alpha sample is left as it was.
C5_NearestInteger ==
  ToneDone =>
    /\ Len(call.out) = Len(call.data)
    /\ call.out[4] = call.data[4]
    /\ \A i \in 1..3 :
         LET num == ToneNum(call.data[i], call.brightness, call.contrast)
             den == ToneDen(call.contrast)
             d   == 2 * (call.out[i] * den - num)
         IN  /\ call.out[i] \in 0..255
             /\ d <= den
             /\ -d <= den

C5_Witness ==
  /\ ToneDone
  /\ call.data = <<0, 50, 128, 255>>
  /\ call.brightness = 0
  /\ call.contrast = 25
  /\ call.out[2] = 33
  /\ call.out[2] * ToneDen(25) # ToneNum(50, 0, 25)

\* C18: applyBrightnessContrast leaves the alpha sample of every pixel as it
\* was, and the buffer as long as it was.
C18_AlphaUntouched ==
  ToneDone =>
    /\ Len(call.out) = Len(call.data)
    /\ \A i \in 1..Len(call.data) : (i - 1) % 4 = 3 => call.out[i] = call.data[i]

C18_Witness ==
  /\ ToneDone
  /\ call.data = <<255, 100, 200, 7>>
  /\ call.brightness = 50
  /\ call.contrast = -25
  /\ call.out[4] = 7
  /\ call.out[2] # 100

\* C19: brightness and contrast do not commute: for the sample 100 with
\* brightness 25 and contrast 25 the code's order (brightness, then contrast)
\* gives 124 and the opposite order gives 119.
C19_OrderMatters ==
  ToneDone /\ call.data = <<255, 100, 200, 7>>
           /\ call.brightness = 25 /\ call.contrast = 25 =>
    /\ call.out[2] = 124
    /\ AdjustSampleContrastFirst(call.data[2], call.brightness, call.contrast) = 119
    /\ call.out[2] # AdjustSampleContrastFirst(call.data[2], call.brightness,
                                               call.contrast)

C19_Witness ==
  /\ ToneDone
  /\ call.data = <<255, 100, 200, 7>>
  /\ call.brightness = 25
  /\ call.contrast = 25
  /\ call.out[2] = 124

\* C20: with brightness 0 and contrast 0 applyBrightnessContrast returns the
\* buffer it was given, and the loop body maps every sample value of
\* [0,255] to itself, so running it or skipping it gives the same pixels.
C20_ZeroIsIdentity ==
  ToneDone /\ call.brightness = 0 /\ call.contrast = 0 =>
    /\ call.out = call.data
    /\ \A v \in 0..255 : AdjustSample(v, 0, 0) = v

C20_Witness ==
  /\ ToneDone
  /\ call.brightness = 0
  /\ call.contrast = 0
  /\ call.data = <<30, 127, 129, 0>>
  /\ call.out = <<30, 127, 129, 0>>

\* C21: with brightness 0 and contrast +25 the contrast factor is
\* 72520/59670, which is 1.216 to within 1/1000, the sample 50 becomes 33
\* (so within 1 of 33) and the sample 200 becomes 216.
C21_WorkedExample ==
  ToneDone /\ call.brightness = 0 /\ call.contrast = 25 =>
    /\ 259 * (call.contrast + 255) = 72520
    /\ 255 * (259 - call.contrast) = 59670
    /\ DLt(DLit(1215, 1000), ContrastFactor(call.contrast))
    /\ DLt(ContrastFactor(call.contrast), DLit(1217, 1000))
    /\ \A i \in 1..3 :
         /\ call.data[i] = 50 => call.out[i] = 33 /\ call.out[i] \in 32..34
         /\ call.data[i] = 200 => call.out[i] = 216

C21_Witness ==
  /\ ToneDone
  /\ call.brightness = 0
  /\ call.contrast = 25
  /\ \E i \in 1..3 : call.data[i] = 50 /\ call.out[i] = 33
  /\ ContrastFactor(25) = DLit(72520, 59670)

(***************************************************************************)
(* The exporter's layout arithmetic on its own: maxLineLength and          *)
(* lines.length in, bitmap size, font size and text origin out.            *)
(***************************************************************************)
LineLengths == {1, 40, 80, 84, 120}
MaxLineCount == 220

PngInputs ==
  {[fn |-> "layout", done |-> FALSE, maxLineLength |-> m, lineCount |-> n] :
     m \in LineLengths, n \in 1..MaxLineCount}

InitPng == AppInit /\ call \in PngInputs

layoutPng ==
  /\ call.fn = "layout"
  /\ ~call.done
  /\ call' = [fn |-> call.fn, done |-> TRUE,
              maxLineLength |-> call.maxLineLength,
              lineCount |-> call.lineCount,
              out |-> Layout(call.maxLineLength, call.lineCount)]
  /\ UNCHANGED appVars

NextPng == layoutPng

SpecPng == InitPng /\ [][NextPng]_vars

PngDone == call.fn = "layout" /\ call.done

\* C7: the longer axis of the final bitmap is within [600, 1200]; both axes
\* are the natural size (maxLineLength * 6 + 100 by lineCount * 10 + 100)
\* scaled by one common factor, to within one pixel; the natural size is
\* used as it is when its longer axis is already within the range.
C7_BitmapSize ==
  PngDone =>
    LET nw == call.out.naturalWidth
        nh == call.out.naturalHeight
        fw == call.out.width
        fh == call.out.height
        Abs(x) == IF x < 0 THEN -x ELSE x
    IN  /\ call.out.naturalExact
        /\ nw = call.maxLineLength * 6 + padding
        /\ nh = call.lineCount * 10 + padding
        /\ MaxInt(fw, fh) \in minDimension..maxDimension
        /\ IF nw > nh THEN Abs(fh * nw - nh * fw) <= nw
                      ELSE Abs(fw * nh - nw * fh) <= nh
        /\ MaxInt(nw, nh) \in minDimension..maxDimension => fw = nw /\ fh = nh

C7_Witness ==
  /\ PngDone
  /\ call.maxLineLength = 120
  /\ call.lineCount = 111
  /\ call.out.naturalHeight = 1210
  /\ call.out.height = maxDimension
  /\ call.out.width = 813

\* C8: for an output width of 40 to 120 and any row count the font size makes
\* the glyph block fit the padded interior: maxLineLength * 0.6 * fontSize <=
\* finalWidth - padding and lineCount * fontSize <= finalHeight - padding, so
\* neither centring offset is negative.
C8_BlockFits ==
  PngDone /\ call.maxLineLength \in 40..120 =>
    /\ DLe(call.out.totalTextWidth, call.out.availableWidth)
    /\ DLe(call.out.totalTextHeight, call.out.availableHeight)
    /\ DLe(DFromInt(0), call.out.startX)
    /\ DLe(DFromInt(0), call.out.startY)

\* C11: the export of a grid of one row and one column (one glyph per line,
\* one line, or two lines when the text's trailing terminator is counted)
\* yields a bitmap at least 600 px wide and at least 600 px high.
C11_OneByOneSize ==
  PngDone /\ call.maxLineLength = 1 /\ call.lineCount \in 1..2 =>
    /\ call.out.width >= minDimension
    /\ call.out.height >= minDimension

(***************************************************************************)
(* ui-controls.js, setupFileControls: files chosen in the file input or    *)
(* dropped on the page load asynchronously (loadImageFromFile); the        *)
(* listener goes on after the await when the image's load or error event   *)
(* fires.  Several loads can be in flight, and the events fire in any      *)
(* order.                                                                  *)
(***************************************************************************)
\* the files a user picks: the media type of the File and whether its bytes
\* decode as an image (a decodable file is one of Images)
Files ==
  [wide   |-> [type |-> <<"image", "png">>,  decodes |-> TRUE],
   strip  |-> [type |-> <<"image", "png">>,  decodes |-> TRUE],
   broken |-> [type |-> <<"image", "png">>,  decodes |-> FALSE],
   notes  |-> [type |-> <<"text", "plain">>, decodes |-> FALSE]]
FileNames == DOMAIN Files
MaxLoads == 2

\* const image = await window.ImageProcessor.loadImageFromFile(file): the
\* listener is suspended with the load in flight
StartLoad(name, via, input) ==
  /\ Len(loads.started) < MaxLoads
  /\ loads' = [input     |-> input,
               started   |-> Append(loads.started, [file |-> name, via |-> via]),
               pending   |-> loads.pending \cup {Len(loads.started) + 1},
               delivered |-> loads.delivered]
  /\ Quiet /\ NoInvert
  /\ UNCHANGED <<currentImage, currentAscii, isInverted, settings, asciiDom,
                 result, edits, call>>

\* the change listener of #fileInput: the input holds the chosen file
selectFile == \E name \in FileNames : StartLoad(name, "input", name)

\* the drop listener of the document: only a file whose type starts with
\* "image/" is loaded
dropFile ==
  \E name \in FileNames :
    IF Files[name].type[1] = "image"
    THEN StartLoad(name, "drop", loads.input)
    ELSE /\ Quiet /\ NoInvert
         /\ UNCHANGED <<currentImage, currentAscii, isInverted, settings,
                        asciiDom, result, edits, loads, call>>

\* on a failed load forgets the image that was loaded before
AfterLoadForgetsOnError(i, resolved) ==
  /\ loads' = [loads EXCEPT !.pending = @ \ {i},
                            !.delivered = IF resolved THEN @ \cup {i} ELSE @]
  /\ currentImage' = IF resolved THEN loads.started[i].file ELSE "null"
  /\ Quiet /\ NoInvert
  /\ UNCHANGED <<currentAscii, isInverted, settings, asciiDom, result, edits, call>>

\* the listener after the await: callbacks.onImageLoad(image, file) when the
\* promise resolved, the catch block (console.error) when it rejected
AfterLoad(i, resolved) ==
  IF resolved
  THEN /\ ImageLoadEffect(loads.started[i].file)
       /\ loads' = [loads EXCEPT !.pending = @ \ {i}, !.delivered = @ \cup {i}]
  ELSE /\ loads' = [loads EXCEPT !.pending = @ \ {i}]
       /\ Quiet /\ NoInvert
       /\ UNCHANGED <<currentImage, currentAscii, isInverted, settings, asciiDom,
                      result, edits, call>>

\* img.onload = () => resolve(img)
onload(i) ==
  /\ i \in loads.pending
  /\ Files[loads.started[i].file].decodes
  /\ AfterLoad(i, TRUE)

\* img.onerror = () => reject(new Error("Error loading image"))
onerror(i) ==
  /\ i \in loads.pending
  /\ ~Files[loads.started[i].file].decodes
  /\ AfterLoad(i, FALSE)

NextLoad ==
  \/ selectFile
  \/ dropFile
  \/ \E i \in 1..MaxLoads : onload(i)
  \/ \E i \in 1..MaxLoads : onerror(i)
  \/ handleRender
  \/ handleClear

SpecLoad == Init /\ [][NextLoad]_vars

\* C27: when the load of a chosen or dropped file fails, the promise is
\* rejected and the listener ends: onImageLoad is not called for that file,
\* then or later, and currentImage, currentAscii and settings stay as they
\* were.
C27_FailedLoadChangesNothing ==
  /\ [](\A i \in loads.delivered : Files[loads.started[i].file].decodes)
  /\ [][\A i \in 1..MaxLoads : onerror(i) =>
           /\ i \notin loads'.pending
           /\ loads'.delivered = loads.delivered
           /\ UNCHANGED <<currentImage, currentAscii, settings>>]_vars

\* the load of the broken file has failed after an image was loaded and
\* rendered: the image and its text are still there
C27_Witness ==
  /\ Len(loads.started) = 2
  /\ loads.started[2].file = "broken"
  /\ loads.pending = {}
  /\ loads.delivered = {1}
  /\ currentImage = loads.started[1].file
  /\ currentAscii # <<>>

\* C28: when the last of the loads in flight completes, every file having
\* come through the file input and none cleared since, currentImage is the
\* file chosen last, in whatever order the loads completed; and a load that
\* completes after a Clear that followed its selection leaves currentImage
\* as the Clear left it.
C28_LastSelectionWins ==
  [][\A i \in 1..MaxLoads : onload(i) =>
       /\ (/\ loads'.pending = {}
           /\ loads.input # ""
           /\ \A k \in 1..Len(loads.started) : loads.started[k].via = "input")
            => currentImage' = loads.input
       /\ (loads.started[i].via = "input" /\ loads.input = "")
            => currentImage' = currentImage]_vars

(***************************************************************************)
(* Claims about the application (Spec).                                    *)
(***************************************************************************)
\* C6: with an image loaded, after two consecutive Invert clicks and nothing
\* in between, isInverted is what it was before them and currentAscii is the
\* conversion of the image under the options as they were before them.
C6_InvertTwice ==
  invertRun = 2 /\ currentImage # "null" =>
    /\ isInverted = invertBase
    /\ LET r == ConvertImageToASCII(Images[currentImage],
                                    RenderOptions(settings, invertBase))
       IN  r.ok /\ currentAscii = r.ascii

\* C9: whenever Save PNG runs in colour mode on a non-empty text, it draws
\* exactly one glyph per cell of the most recently rendered grid, each in the
\* palette colour stored for that cell.
C9_ColourExport ==
  exported.done /\ exported.colorMode = "color" /\ result.ok =>
    /\ Len(exported.draws) = result.height
    /\ \A y \in 1..Len(exported.draws) :
         /\ Len(exported.draws[y]) = result.width
         /\ \A x \in 1..Len(exported.draws[y]) :
              /\ exported.draws[y][x].char =
                   result.ascii[(y - 1) * (result.width + 1) + x]
              /\ result.hasColor =>
                   exported.draws[y][x].color =
                     <<result.colorData[y][x].r, result.colorData[y][x].g,
                       result.colorData[y][x].b>>

\* C10: in Save PNG, for a text produced by convertImageToASCII, lineCount is
\* the number of rows of the grid and maxLineLength is the output width.
C10_LineMetrics ==
  exported.done /\ result.ok =>
    /\ exported.layout.lineCount = result.height
    /\ exported.layout.maxLineLength = result.width

\* C12: a Save PNG click while the text to export is empty (no row, no
\* column) still draws a bitmap, whose longer axis is the minimum bound of
\* 600 px and which holds no glyph.
C12_EmptyGridExport ==
  [][(handleSavePng /\ currentAscii = <<>>) =>
       /\ exported'.done
       /\ MaxInt(exported'.layout.width, exported'.layout.height) = minDimension
       /\ \A y \in 1..Len(exported'.draws) : exported'.draws[y] = <<>>]_vars

\* the conversion a Render click (inverted = isInverted) or an Invert click
\* (inverted = ~isInverted) runs on the loaded image throws
ConversionThrows(inverted) ==
  /\ currentImage # "null"
  /\ ~ConvertImageToASCII(Images[currentImage],
                          RenderOptions(settings, inverted)).ok

\* C15: a Render or Invert click whose conversion throws leaves
\* currentImage, currentAscii, isInverted and settings as they were.
C15_ThrowKeepsState ==
  [][(\/ handleRender /\ ConversionThrows(isInverted)
      \/ handleInvert /\ ConversionThrows(~isInverted))
       => UNCHANGED <<currentImage, currentAscii, isInverted, settings>>]_vars

\* C25: with an image loaded and a text displayed, a change of output width,
\* brightness or contrast leaves the display showing the conversion of the
\* image under the new settings, without a Render click.
C25_InstantFeedback ==
  [][((onWidthChange \/ onBrightnessChange \/ onContrastChange)
        /\ currentImage # "null" /\ currentAscii # <<>>) =>
       LET r == ConvertImageToASCII(Images[currentImage],
                                    RenderOptions(settings', isInverted))
       IN  r.ok => /\ currentAscii' = r.ascii
                   /\ asciiDom' = IF settings.colorMode = "color"
                                  THEN RenderColoredASCII(r.colorData)
                                  ELSE [kind |-> "text", text |-> r.ascii]]_vars

\* C26: in every reachable state a Reset All Settings click leaves settings
\* at the values the application starts with (output width 80, brightness 0,
\* contrast 0, character set medium, colour mode monochrome, palette
\* original) and isInverted false.
C26_ResetRestoresDefaults ==
  [][resetSettings =>
       /\ settings'.outputWidth = 80
       /\ settings'.brightness = 0
       /\ settings'.contrast = 0
       /\ settings'.charSetKey = "medium"
       /\ settings'.colorMode = "monochrome"
       /\ settings'.colorPalette = "original"
       /\ settings' = DefaultSettings
       /\ isInverted' = FALSE]_vars

\* a reset has acted: the one setting change allowed was spent on the width
\* the displayed grid was rendered with, and the settings are the defaults again
C26_Witness ==
  /\ edits = MaxEdits
  /\ result.ok /\ result.width = 40
  /\ settings = DefaultSettings
  /\ isInverted = FALSE

\* C29: in every state reached by image loads, Render, Invert, Clear, Reset,
\* Save PNG and setting changes, a non-empty currentAscii comes with a loaded
\* image (currentImage is not null).
C29_AsciiImpliesImage ==
  currentAscii # <<>> => currentImage # "null"

\* a text is displayed and an image is loaded: here the text rendered from the
\* two-row image, with the one-row image loaded after it
C29_Witness ==
  /\ currentAscii # <<>>
  /\ currentImage = "strip"
  /\ result.ok /\ result.height = 2

====
